---- MODULE Spec2Model ----
(***************************************************************************)
(* A model of mixbuddy: the song analysis pipeline of analyze_songs.py     *)
(* (estimate_key, key_to_camelot, detect_mood, analyze_song,               *)
(* analyze_folder), the in-page player script of main.py (togglePlay and   *)
(* the audio element's listeners) and the recommendation scoring that the  *)
(* design document describes.                                              *)
(*                                                                         *)
(* Python strings are sequences of one-character strings, so that          *)
(* str.split, str.lower, the `in` substring test and f-string formatting   *)
(* are computed and not assumed.  Floating point quantities are scaled     *)
(* integers: profile weights in hundredths, energy in thousandths, tempo   *)
(* in half BPM, brightness in Hz.                                          *)
(***************************************************************************)
EXTENDS Integers, Sequences, FiniteSets, TLC

VARIABLES
    song,            \* analyze_song: the features of the track being analysed
    row,             \* analyze_song: the returned dict, NoRow before the call
    songs,           \* analyze_folder: list_songs(directory), in listing order
    song_index,      \* analyze_folder: how many songs the for loop has consumed
    rows,            \* analyze_folder: the rows yielded so far
    raised,          \* analyze_folder: TRUE once an exception left the generator
    exhausted,       \* analyze_folder: TRUE once the for loop has ended
    labels,          \* key_to_camelot: the pair of key strings given
    codes,           \* key_to_camelot: the pair of results, <<>> before the calls
    mood_in,         \* detect_mood: tempo, energy, brightness and key given
    mood,            \* detect_mood: the label returned, <<>> before the call
    catalog,         \* recommend: the catalog, fingerprints in insertion order
    query,           \* recommend: the query filename
    recs,            \* recommend: [done, list], the result list once done
    wheel_in,        \* camelotDistance: the pair of codes given
    wheel_out,       \* camelotDistance: <<d(a, b), d(b, a)>>, <<>> before the calls
    currentButton,   \* player: let currentButton (0 = null)
    currentSong,     \* player: let currentSong (<<>> = null)
    paused,          \* player: audioPlayer.paused
    audioSrc,        \* player: the song audioPlayer.src names (<<>> = none)
    textContent,     \* player: textContent of each play button
    lastEvent,       \* player: the handler that ran last
    music_dir,       \* server: the listed songs that are still files of MUSIC_DIR
    response         \* server: status of the last GET /play/<filename>, 0 = none yet

songVars   == <<song, row>>
folderVars == <<songs, song_index, rows, raised, exhausted>>
camVars    == <<labels, codes>>
moodVars   == <<mood_in, mood>>
recVars    == <<catalog, query, recs, wheel_in, wheel_out>>
playerVars ==
    <<currentButton, currentSong, paused, audioSrc, textContent, lastEvent,
      music_dir, response>>
vars == <<songVars, folderVars, camVars, moodVars, recVars, playerVars>>

-----------------------------------------------------------------------------
(* Bounds of the model.                                                    *)
MaxFrames == 2
MaxSongs == 3
MaxCatalog == 3
NumButtons == 3

-----------------------------------------------------------------------------
(* Strings.                                                                *)

Major == <<"m", "a", "j", "o", "r">>
Minor == <<"m", "i", "n", "o", "r">>
Unknown == <<"U", "n", "k", "n", "o", "w", "n">>
Space == <<" ">>
EmptyStr == << >>

UpperCase == <<"A", "B", "C", "D", "E", "F", "G", "H", "M", "U">>
LowerCase == <<"a", "b", "c", "d", "e", "f", "g", "h", "m", "u">>

\* str.lower on one character
LowerChar(c) ==
    IF \E i \in 1..Len(UpperCase) : UpperCase[i] = c
    THEN LowerCase[CHOOSE i \in 1..Len(UpperCase) : UpperCase[i] = c]
    ELSE c

\* str.lower
Lower(s) == [i \in 1..Len(s) |-> LowerChar(s[i])]

\* the `in` operator on strings: sub occurs as a substring of s
Contains(s, sub) ==
    \E i \in 0..(Len(s) - Len(sub)) :
        \A j \in 1..Len(sub) : s[i + j] = sub[j]

\* key.split(" ", 1): the list of parts, of length 1 when s has no space
Split1(s) ==
    IF \E i \in 1..Len(s) : s[i] = " "
    THEN LET p == CHOOSE i \in 1..Len(s) :
                      s[i] = " " /\ \A j \in 1..(i - 1) : s[j] # " "
         IN  <<SubSeq(s, 1, p - 1), SubSeq(s, p + 1, Len(s))>>
    ELSE <<s>>

Digits == <<"0", "1", "2", "3", "4", "5", "6", "7", "8", "9">>

RECURSIVE NatToStr(_)
\* str(n) of a non-negative int
NatToStr(n) ==
    IF n < 10 THEN <<Digits[n + 1]>>
    ELSE Append(NatToStr(n \div 10), Digits[(n % 10) + 1])

-----------------------------------------------------------------------------
(* Constant tables of analyze_songs.py.                                    *)

KEY_NAMES ==
    << <<"C">>, <<"C", "#">>, <<"D">>, <<"D", "#">>, <<"E">>, <<"F">>,
       <<"F", "#">>, <<"G">>, <<"G", "#">>, <<"A">>, <<"A", "#">>, <<"B">> >>

\* dicts as sets of <<key, value>> pairs
CAM_MAJOR ==
    { << <<"B">>,      <<"1", "B">> >>,
      << <<"F", "#">>, <<"2", "B">> >>,
      << <<"C", "#">>, <<"3", "B">> >>,
      << <<"G", "#">>, <<"4", "B">> >>,
      << <<"D", "#">>, <<"5", "B">> >>,
      << <<"A", "#">>, <<"6", "B">> >>,
      << <<"F">>,      <<"7", "B">> >>,
      << <<"C">>,      <<"8", "B">> >>,
      << <<"G">>,      <<"9", "B">> >>,
      << <<"D">>,      <<"1", "0", "B">> >>,
      << <<"A">>,      <<"1", "1", "B">> >>,
      << <<"E">>,      <<"1", "2", "B">> >> }

\* CAM_MINOR with the codes of F# and C# given to the wrong rows: C# gets the
\* 11A that F# has
CAM_MINOR_Duplicate ==
    { << <<"G", "#">>, <<"1", "A">> >>,
      << <<"D", "#">>, <<"2", "A">> >>,
      << <<"A", "#">>, <<"3", "A">> >>,
      << <<"F">>,      <<"4", "A">> >>,
      << <<"C">>,      <<"5", "A">> >>,
      << <<"G">>,      <<"6", "A">> >>,
      << <<"D">>,      <<"7", "A">> >>,
      << <<"A">>,      <<"8", "A">> >>,
      << <<"E">>,      <<"9", "A">> >>,
      << <<"B">>,      <<"1", "0", "A">> >>,
      << <<"F", "#">>, <<"1", "1", "A">> >>,
      << <<"C", "#">>, <<"1", "1", "A">> >> }

CAM_MINOR ==
    { << <<"G", "#">>, <<"1", "A">> >>,
      << <<"D", "#">>, <<"2", "A">> >>,
      << <<"A", "#">>, <<"3", "A">> >>,
      << <<"F">>,      <<"4", "A">> >>,
      << <<"C">>,      <<"5", "A">> >>,
      << <<"G">>,      <<"6", "A">> >>,
      << <<"D">>,      <<"7", "A">> >>,
      << <<"A">>,      <<"8", "A">> >>,
      << <<"E">>,      <<"9", "A">> >>,
      << <<"B">>,      <<"1", "0", "A">> >>,
      << <<"F", "#">>, <<"1", "1", "A">> >>,
      << <<"C", "#">>, <<"1", "2", "A">> >> }

\* dict.get(k, default)
Get(d, k, default) ==
    IF \E e \in d : e[1] = k
    THEN (CHOOSE e \in d : e[1] = k)[2]
    ELSE default

\* the profiles in hundredths
MAJOR_PROFILE == <<635, 223, 348, 233, 438, 409, 252, 519, 239, 366, 229, 288>>
MINOR_PROFILE == <<633, 268, 352, 538, 260, 353, 254, 475, 398, 269, 334, 317>>

-----------------------------------------------------------------------------
(* estimate_key.                                                           *)

\* np.roll(v, k): element i of the result is element i - k of v (0-based)
Roll(v, k) == [i \in 1..12 |-> v[((i - 1 - k) % 12) + 1]]

RECURSIVE SumTo(_, _)
SumTo(f, n) == IF n = 0 THEN 0 ELSE f[n] + SumTo(f, n - 1)

\* np.dot of two 12-vectors
Dot(a, b) == SumTo([i \in 1..12 |-> a[i] * b[i]], 12)

\* A chroma matrix is a sequence of frames (its columns); a frame is
\* [nan |-> BOOLEAN, v |-> 12 naturals].  chroma.mean(axis=1) of a matrix
\* without columns, or with a NaN in it, is NaN in the rows concerned; every
\* dot product with it is NaN.
ChromaIsNaN(chroma) ==
    Len(chroma) = 0 \/ \E f \in 1..Len(chroma) : chroma[f].nan

\* Len(chroma) * chroma.mean(axis=1).  The mean, and the division by
\* np.linalg.norm(chroma_mean) + 1e-9, scale all 24 scores by one positive
\* factor; the scores below are the dot products before that scaling, whose
\* order and whose ties are the same.
ChromaSum(chroma) ==
    [i \in 1..12 |-> SumTo([f \in 1..Len(chroma) |-> chroma[f].v[i]], Len(chroma))]

NegInf == [kind |-> "-inf", val |-> 0]
NaN == [kind |-> "nan", val |-> 0]
Fin(x) == [kind |-> "fin", val |-> x]

\* a > b on floats: false when either is NaN; everything finite is > -inf
Greater(a, b) ==
    /\ a.kind # "nan"
    /\ b.kind # "nan"
    /\ \/ a.kind = "fin" /\ b.kind = "-inf"
       \/ a.kind = "fin" /\ b.kind = "fin" /\ a.val > b.val

\* np.dot(chroma_norm, np.roll(profile, index))
Score(chroma, profile, index) ==
    IF ChromaIsNaN(chroma) THEN NaN
    ELSE Fin(Dot(ChromaSum(chroma), Roll(profile, index)))

\* KeyLabel as f"{key_name}{mode}", the space of the f-string forgotten
KeyLabelNoSpace(index, mode) == KEY_NAMES[index + 1] \o mode

\* f"{key_name} major" and f"{key_name} minor"
KeyLabel(index, mode) == KEY_NAMES[index + 1] \o Space \o mode

\* MajorStep with `>=` for `>`: a later candidate of equal score replaces the best
MajorStepOrEqual(chroma, index, best) ==
    LET major_score == Score(chroma, MAJOR_PROFILE, index)
    IN  IF Greater(major_score, best.best_score) \/ major_score = best.best_score
        THEN [best_score |-> major_score, best_key |-> KeyLabel(index, Major)]
        ELSE best

\* `if major_score > best_score:` of the loop body
MajorStep(chroma, index, best) ==
    LET major_score == Score(chroma, MAJOR_PROFILE, index)
    IN  IF Greater(major_score, best.best_score)
        THEN [best_score |-> major_score, best_key |-> KeyLabel(index, Major)]
        ELSE best

\* `if minor_score > best_score:` of the loop body
MinorStep(chroma, index, best) ==
    LET minor_score == Score(chroma, MINOR_PROFILE, index)
    IN  IF Greater(minor_score, best.best_score)
        THEN [best_score |-> minor_score, best_key |-> KeyLabel(index, Minor)]
        ELSE best

RECURSIVE KeyLoop(_, _)
\* the state of the for loop after the iterations index = 0 .. n - 1
KeyLoop(chroma, n) ==
    IF n = 0 THEN [best_score |-> NegInf, best_key |-> Unknown]
    ELSE MinorStep(chroma, n - 1, MajorStep(chroma, n - 1, KeyLoop(chroma, n - 1)))

estimate_key(chroma) == KeyLoop(chroma, 12).best_key

-----------------------------------------------------------------------------
(* key_to_camelot.                                                         *)

key_to_camelot(key) ==
    LET parts == Split1(key)
    IN  IF Len(parts) # 2 THEN EmptyStr          \* except ValueError
        ELSE IF parts[2] = Major THEN Get(CAM_MAJOR, parts[1], EmptyStr)
        ELSE IF parts[2] = Minor THEN Get(CAM_MINOR, parts[1], EmptyStr)
        ELSE EmptyStr

-----------------------------------------------------------------------------
(* detect_mood.  energy is float(np.mean(rms)) in thousandths, brightness   *)
(* is float(np.mean(spectral_centroid)) in Hz, tempo is in half BPM.        *)

\* the mood labels
Energetic == <<"E", "n", "e", "r", "g", "e", "t", "i", "c">>
Uplifting == <<"U", "p", "l", "i", "f", "t", "i", "n", "g">>
Dark == <<"D", "a", "r", "k">>
Chill == <<"C", "h", "i", "l", "l">>
Melancholic == <<"M", "e", "l", "a", "n", "c", "h", "o", "l", "i", "c">>
Intense == <<"I", "n", "t", "e", "n", "s", "e">>

Min(a, b) == IF a < b THEN a ELSE b

\* min(brightness / 3500.0, 1.0), in units of 1/3500
brightness_normalized(brightness) == Min(brightness, 3500)

\* brightness_normalized > pct / 100, and < pct / 100
BrightAbove(bn, pct) == bn * 100 > pct * 3500
BrightBelow(bn, pct) == bn * 100 < pct * 3500

\* "major" in key.lower()
is_major(key) == Contains(Lower(key), Major)

\* `if tempo > 125:` and what it nests; <<>> when the block returns nothing
\* and control falls to the next `if`
HighTempoBlock(energy, bn, tempo, key) ==
    IF tempo > 2 * 125 /\ energy > 120
    THEN IF is_major(key) \/ BrightAbove(bn, 50)
         THEN Energetic
         ELSE Intense
    ELSE EmptyStr

\* the body of `if tempo >= 110:`
MediumHighBlock(energy, bn, key) ==
    IF BrightAbove(bn, 55) /\ energy > 80 THEN Uplifting
    ELSE IF BrightBelow(bn, 30) /\ energy < 110 THEN Dark
    ELSE IF energy > 130 /\ ~is_major(key) THEN Intense
    ELSE Energetic

\* the body of `if tempo >= 95:`
MediumBlock(energy, bn, key) ==
    IF energy < 80 THEN Chill
    ELSE IF is_major(key) /\ BrightAbove(bn, 50) THEN Uplifting
    ELSE IF BrightBelow(bn, 30) THEN Dark
    ELSE Chill

\* the statements after `if tempo >= 95:`
LowBlock(energy, bn, key) ==
    IF energy < 70 THEN Chill
    ELSE IF ~is_major(key) /\ BrightBelow(bn, 40) THEN Melancholic
    ELSE IF is_major(key) THEN Uplifting
    ELSE IF energy > 100 /\ BrightAbove(bn, 40) THEN Uplifting
    ELSE Chill

\* detect_mood with the `tempo > 125` block consulted before `tempo > 145`
detect_mood_HighFirst(energy, brightness, tempo, key) ==
    LET bn == brightness_normalized(brightness)
        high == HighTempoBlock(energy, bn, tempo, key)
    IN  IF high # EmptyStr THEN high
        ELSE IF tempo > 2 * 145 THEN Energetic
        ELSE IF tempo >= 2 * 110 THEN MediumHighBlock(energy, bn, key)
        ELSE IF tempo >= 2 * 95 THEN MediumBlock(energy, bn, key)
        ELSE LowBlock(energy, bn, key)

detect_mood(energy, brightness, tempo, key) ==
    LET bn == brightness_normalized(brightness)
        high == HighTempoBlock(energy, bn, tempo, key)
    IN  IF tempo > 2 * 145 THEN Energetic
        ELSE IF high # EmptyStr THEN high
        ELSE IF tempo >= 2 * 110 THEN MediumHighBlock(energy, bn, key)
        ELSE IF tempo >= 2 * 95 THEN MediumBlock(energy, bn, key)
        ELSE LowBlock(energy, bn, key)

-----------------------------------------------------------------------------
(* analyze_song.  A song is what librosa yields for its file:               *)
(*   filename, outcome ("ok", or the class of what librosa raises, with its *)
(*   message), tempo (the array librosa.feature.tempo returns, in half      *)
(*   BPM), chroma, energy, brightness.                                      *)

RECURSIVE SortedSeq(_)
\* np.sort of a sequence of numbers
SortedSeq(s) ==
    IF Len(s) = 0 THEN << >>
    ELSE LET m == CHOOSE i \in 1..Len(s) : \A j \in 1..Len(s) : s[i] <= s[j]
             rest == [k \in 1..(Len(s) - 1) |-> IF k < m THEN s[k] ELSE s[k + 1]]
         IN  <<s[m]>> \o SortedSeq(rest)

\* np.median; the inputs of an even length have two middle values whose mean
\* is a whole number of half BPM
Median(s) ==
    LET t == SortedSeq(s)
        n == Len(s)
    IN  IF n % 2 = 1 THEN t[(n + 1) \div 2]
        ELSE (t[n \div 2] + t[(n \div 2) + 1]) \div 2

\* float(np.median(tempo)) if tempo.size else 0.0
tempo_value(tempo) == IF Len(tempo) # 0 THEN Median(tempo) ELSE 0

\* int(round(x)) of x = t / 2: halves round to the even neighbour
RoundHalfBpm(t) ==
    IF t % 2 = 0 THEN t \div 2
    ELSE IF ((t - 1) \div 2) % 2 = 0 THEN (t - 1) \div 2
    ELSE (t + 1) \div 2

NoRow == [filename |-> 0]

\* the dict analyze_song returns
analyze_song(s) ==
    LET tv == tempo_value(s.tempo)
        key == estimate_key(s.chroma)
    IN  [filename |-> s.filename,
         tempo_bpm |-> NatToStr(RoundHalfBpm(tv)),
         camelot_key |-> key_to_camelot(key),
         key |-> key,
         mood |-> detect_mood(s.energy, s.brightness, tv, key)]

\* ErrorRow with the key of a track that could not be analysed set to "Unknown"
ErrorRowUnknownKey(s) ==
    [filename |-> s.filename,
     tempo_bpm |-> EmptyStr,
     camelot_key |-> EmptyStr,
     key |-> Unknown,
     mood |-> EmptyStr,
     error |-> s.message]

\* the dict of the `except Exception as exc:` branch of analyze_folder
ErrorRow(s) ==
    [filename |-> s.filename,
     tempo_bpm |-> EmptyStr,
     camelot_key |-> EmptyStr,
     key |-> EmptyStr,
     mood |-> EmptyStr,
     error |-> s.message]

-----------------------------------------------------------------------------
(* Inputs.                                                                 *)

Modes == {Major, Minor}
Profile(mode) == IF mode = Major THEN MAJOR_PROFILE ELSE MINOR_PROFILE

ZeroFrame == [nan |-> FALSE, v |-> [i \in 1..12 |-> 0]]
OnesFrame == [nan |-> FALSE, v |-> [i \in 1..12 |-> 1]]
NaNFrame == [nan |-> TRUE, v |-> [i \in 1..12 |-> 0]]
UnitFrame(k) == [nan |-> FALSE, v |-> [i \in 1..12 |-> IF i = k + 1 THEN 1 ELSE 0]]
ProfileFrame(mode, k) == [nan |-> FALSE, v |-> Roll(Profile(mode), k)]

Frames ==
    {ZeroFrame, OnesFrame, NaNFrame, UnitFrame(0), UnitFrame(7),
     ProfileFrame(Major, 0), ProfileFrame(Minor, 9)}

\* the chroma matrices: every sequence of at most MaxFrames of these frames,
\* and the 24 matrices of one frame that is a rolled profile
ChromaInputs ==
    UNION {[1..n -> Frames] : n \in 0..MaxFrames}
    \cup {<<ProfileFrame(mode, k)>> : mode \in Modes, k \in 0..11}

BadFile == <<"b", "a", "d">>

NoSong == [filename |-> 0]

\* the tracks analyze_song is applied to
SongInputs ==
    [filename : {1}, outcome : {"ok"}, message : {EmptyStr},
     tempo : {<< >>, <<256>>}, chroma : ChromaInputs,
     energy : {100}, brightness : {2000}]

\* what a listed file can be: a track that analyses, or one librosa raises on
\* (an Exception with or without a message, or a KeyboardInterrupt, which is
\* no Exception)
FileInputs ==
    [outcome : {"ok"}, message : {EmptyStr},
     tempo : {<<240, 261, 250>>}, chroma : {<<ProfileFrame(Minor, 9)>>, << >>},
     energy : {150}, brightness : {1000}]
    \cup
    [outcome : {"Exception"}, message : {BadFile, EmptyStr},
     tempo : {<< >>}, chroma : {<< >>}, energy : {0}, brightness : {0}]
    \cup
    [outcome : {"KeyboardInterrupt"}, message : {EmptyStr},
     tempo : {<< >>}, chroma : {<< >>}, energy : {0}, brightness : {0}]

\* the listings: file i of the listing has filename i
Listings ==
    UNION {{[i \in 1..n |-> [filename |-> i] @@ fs[i]] : fs \in [1..n -> FileInputs]}
           : n \in 0..MaxSongs}

-----------------------------------------------------------------------------
(* The idle values of each part.                                           *)

IdleSong == song = NoSong /\ row = NoRow
IdleFolder ==
    /\ songs = << >> /\ song_index = 0 /\ rows = << >>
    /\ raised = FALSE /\ exhausted = FALSE
IdleCam == labels = << >> /\ codes = << >>
IdleMood == mood_in = << >> /\ mood = EmptyStr
IdleRec ==
    /\ catalog = << >> /\ query = 0 /\ recs = [done |-> FALSE, list |-> << >>]
    /\ wheel_in = << >> /\ wheel_out = << >>
IdlePlayer ==
    /\ currentButton = 0 /\ currentSong = << >> /\ paused = TRUE /\ audioSrc = << >>
    /\ textContent = << >> /\ lastEvent = "load"
    /\ music_dir = {} /\ response = 0

-----------------------------------------------------------------------------
(* analyze_song on one track.                                              *)

InitSong ==
    /\ song \in SongInputs
    /\ row = NoRow
    /\ IdleFolder /\ IdleCam /\ IdleMood /\ IdleRec /\ IdlePlayer

AnalyzeSong ==
    /\ row = NoRow
    /\ song.outcome = "ok"
    /\ row' = analyze_song(song)
    /\ UNCHANGED <<song, folderVars, camVars, moodVars, recVars, playerVars>>

SpecSong == InitSong /\ [][AnalyzeSong]_vars

-----------------------------------------------------------------------------
(* analyze_folder: one action per iteration of its for loop, as list()     *)
(* drives the generator.                                                   *)

Init ==
    /\ songs \in Listings
    /\ song_index = 0
    /\ rows = << >>
    /\ raised = FALSE
    /\ exhausted = FALSE
    /\ IdleSong /\ IdleCam /\ IdleMood /\ IdleRec /\ IdlePlayer

\* the iteration for a track that analyses: yield analyze_song(song_path)
YieldRow ==
    /\ ~raised
    /\ song_index < Len(songs)
    /\ songs[song_index + 1].outcome = "ok"
    /\ rows' = Append(rows, analyze_song(songs[song_index + 1]))
    /\ song_index' = song_index + 1
    /\ UNCHANGED <<songs, raised, exhausted>>
    /\ UNCHANGED <<songVars, camVars, moodVars, recVars, playerVars>>

\* the iteration for a track on which analyze_song raises an Exception
YieldErrorRow ==
    /\ ~raised
    /\ song_index < Len(songs)
    /\ songs[song_index + 1].outcome = "Exception"
    /\ rows' = Append(rows, ErrorRow(songs[song_index + 1]))
    /\ song_index' = song_index + 1
    /\ UNCHANGED <<songs, raised, exhausted>>
    /\ UNCHANGED <<songVars, camVars, moodVars, recVars, playerVars>>

\* the iteration in which something that is no Exception is raised: the
\* except clause does not match and the generator ends with it
Propagate ==
    /\ ~raised
    /\ song_index < Len(songs)
    /\ songs[song_index + 1].outcome \notin {"ok", "Exception"}
    /\ raised' = TRUE
    /\ song_index' = song_index + 1
    /\ UNCHANGED <<songs, rows, exhausted>>
    /\ UNCHANGED <<songVars, camVars, moodVars, recVars, playerVars>>

\* the for loop ends when list_songs(directory) is used up
Exhaust ==
    /\ ~raised
    /\ ~exhausted
    /\ song_index = Len(songs)
    /\ exhausted' = TRUE
    /\ UNCHANGED <<songs, song_index, rows, raised>>
    /\ UNCHANGED <<songVars, camVars, moodVars, recVars, playerVars>>

Next == YieldRow \/ YieldErrorRow \/ Propagate \/ Exhaust

Spec == Init /\ [][Next]_vars

-----------------------------------------------------------------------------
(* Properties of estimate_key and of the rows of analyze_song (SpecSong).  *)

\* the time average of the chroma is exactly the `mode` profile rolled by k
MeanIsRotation(chroma, mode, k) ==
    /\ ~ChromaIsNaN(chroma)
    /\ \A i \in 1..12 :
           ChromaSum(chroma)[i] = Len(chroma) * Roll(Profile(mode), k)[i]

\* C1: rotation-matching law. Whenever the time-averaged chroma equals the
\* major or the minor profile rolled by k positions, estimate_key returns
\* "<KEY_NAMES[k]> <mode>".
C1_RotationMatching ==
    row # NoRow =>
        \A mode \in Modes : \A k \in 0..11 :
            MeanIsRotation(song.chroma, mode, k) => row.key = KeyLabel(k, mode)

\* the 24 candidates in the order the loop scores them
Candidate(n) ==
    [index |-> (n - 1) \div 2, mode |-> IF n % 2 = 1 THEN Major ELSE Minor]

CandidateLabel(n) ==
    KEY_NAMES[Candidate(n).index + 1] \o Space \o Candidate(n).mode

CandidateScore(chroma, n) ==
    Dot(ChromaSum(chroma), Roll(Profile(Candidate(n).mode), Candidate(n).index))

CMajor == <<"C", " ", "m", "a", "j", "o", "r">>

\* C3: tie-break. For a chroma with finite scores the label returned is the
\* first candidate, in the order C major, C minor, C# major, ..., B minor,
\* that attains the maximum score; it is one of the 24 labels, never
\* "Unknown"; an all-zero chroma yields "C major".
C3_FirstMaximumWins ==
    (row # NoRow /\ ~ChromaIsNaN(song.chroma)) =>
        /\ \E n \in 1..24 :
               /\ row.key = CandidateLabel(n)
               /\ \A m \in 1..24 :
                      CandidateScore(song.chroma, m) <= CandidateScore(song.chroma, n)
               /\ \A m \in 1..(n - 1) :
                      CandidateScore(song.chroma, m) < CandidateScore(song.chroma, n)
        /\ row.key # Unknown
        /\ (\A f \in 1..Len(song.chroma) : song.chroma[f] = ZeroFrame) => row.key = CMajor

\* an all-zero chroma, all 24 scores tied, has been given the label "C major"
C3_Witness ==
    /\ row # NoRow
    /\ Len(song.chroma) > 0
    /\ \A f \in 1..Len(song.chroma) : song.chroma[f] = ZeroFrame
    /\ row.key = CMajor

TwentyFourLabels == {CandidateLabel(n) : n \in 1..24}

\* C6: fingerprint invariant. In every row analyze_song returns, camelot_key
\* is non-empty iff key is not "Unknown", and key is "Unknown" or one of the
\* 24 labels; over every chroma, all-zero, empty and NaN included.
C6_CamelotIffKnownKey ==
    row # NoRow =>
        /\ (row.camelot_key # EmptyStr) <=> (row.key # Unknown)
        /\ row.key = Unknown \/ row.key \in TwentyFourLabels

\* a chroma without frames or with a NaN has given "Unknown" and no code
C6_Witness ==
    /\ row # NoRow
    /\ ChromaIsNaN(song.chroma)
    /\ row.key = Unknown
    /\ row.camelot_key = EmptyStr

-----------------------------------------------------------------------------
(* Properties of analyze_folder (Spec).                                    *)

OnlyExceptions == \A i \in 1..Len(songs) : songs[i].outcome \in {"ok", "Exception"}

\* C7: batch error isolation. When every listed song either analyses or
\* raises an Exception, nothing propagates, the rows are one per consumed
\* song in listing order, the row of a song that raised carries its filename
\* and an error message with tempo_bpm, camelot_key, key and mood empty, the
\* row of a song that analysed has no error field, and the loop ends only
\* when every listed song, those after one that raised included, has its row.
C7_BatchErrorIsolation ==
    OnlyExceptions =>
        /\ ~raised
        /\ Len(rows) = song_index
        /\ \A i \in 1..Len(rows) :
               /\ rows[i].filename = songs[i].filename
               /\ songs[i].outcome = "Exception" =>
                      /\ "error" \in DOMAIN rows[i]
                      /\ rows[i].error = songs[i].message
                      /\ rows[i].tempo_bpm = EmptyStr
                      /\ rows[i].camelot_key = EmptyStr
                      /\ rows[i].key = EmptyStr
                      /\ rows[i].mood = EmptyStr
               /\ songs[i].outcome = "ok" =>
                      /\ "error" \notin DOMAIN rows[i]
                      /\ rows[i] = analyze_song(songs[i])
        /\ exhausted => Len(rows) = Len(songs)

\* a listing whose first song raised has been consumed to its end, and a
\* later song has its analysed row
C7_Witness ==
    /\ OnlyExceptions
    /\ Len(songs) >= 2
    /\ exhausted
    /\ Len(rows) = Len(songs)
    /\ songs[1].outcome = "Exception"
    /\ songs[Len(songs)].outcome = "ok"
    /\ "error" \in DOMAIN rows[1]
    /\ "error" \notin DOMAIN rows[Len(songs)]

-----------------------------------------------------------------------------
(* key_to_camelot on a pair of key strings.                                *)

ValidLabels == {KEY_NAMES[i] \o Space \o mode : i \in 1..12, mode \in Modes}

\* strings that are no "<tonic> <mode>": "Unknown", the empty string, no
\* space, another mode, an unlisted tonic, a second space, another case
OtherLabels ==
    { Unknown,
      EmptyStr,
      <<"C">>,
      <<"C", "m", "a", "j", "o", "r">>,
      <<"C", " ", "d", "o", "r", "i", "a", "n">>,
      <<"C", " ", "M", "a", "j", "o", "r">>,
      <<"H", " ", "m", "a", "j", "o", "r">>,
      <<"D", "b", " ", "m", "i", "n", "o", "r">>,
      <<"c", " ", "m", "i", "n", "o", "r">>,
      <<"C", " ", " ", "m", "a", "j", "o", "r">>,
      <<"C", " ", "m", "a", "j", "o", "r", " ">>,
      <<" ", "m", "i", "n", "o", "r">>,
      <<"U", "n", "k", "n", "o", "w", "n", " ", "m", "a", "j", "o", "r">> }

LabelInputs == ValidLabels \cup OtherLabels

InitCamelot ==
    /\ labels \in LabelInputs \X LabelInputs
    /\ codes = << >>
    /\ IdleSong /\ IdleFolder /\ IdleMood /\ IdleRec /\ IdlePlayer

KeyToCamelot ==
    /\ codes = << >>
    /\ codes' = <<key_to_camelot(labels[1]), key_to_camelot(labels[2])>>
    /\ UNCHANGED <<labels, songVars, folderVars, moodVars, recVars, playerVars>>

SpecCamelot == InitCamelot /\ [][KeyToCamelot]_vars

\* the 24 Camelot codes {1..12} x {A, B}
CamelotCodes == {NatToStr(n) \o <<letter>> : n \in 1..12, letter \in {"A", "B"}}

\* the mode of a label "<tonic> <mode>"
ModeOf(label) == Split1(label)[2]

\* C2: on the 24 labels key_to_camelot is a bijection onto the 24 codes:
\* every label gets a code, different labels get different codes, every code
\* is the code of some label, minor labels get 'A' codes and major labels 'B'
\* codes; every other string gets the empty string.
C2_CamelotBijection ==
    codes # << >> =>
        /\ \A i \in 1..2 :
               /\ labels[i] \in ValidLabels =>
                      /\ codes[i] \in CamelotCodes
                      /\ codes[i][Len(codes[i])] =
                             (IF ModeOf(labels[i]) = Minor THEN "A" ELSE "B")
               /\ labels[i] \notin ValidLabels => codes[i] = EmptyStr
        /\ (labels[1] \in ValidLabels /\ labels[2] \in ValidLabels
              /\ codes[1] = codes[2]) => labels[1] = labels[2]
        /\ {key_to_camelot(l) : l \in ValidLabels} = CamelotCodes

\* two different minor labels have been mapped, to two different 'A' codes
C2_Witness ==
    /\ codes # << >>
    /\ labels[1] = <<"F", "#", " ", "m", "i", "n", "o", "r">>
    /\ labels[2] = <<"C", "#", " ", "m", "i", "n", "o", "r">>
    /\ codes = << <<"1", "1", "A">>, <<"1", "2", "A">> >>

-----------------------------------------------------------------------------
(* detect_mood on one set of features.                                     *)

\* tempo in half BPM, around 95, 110, 125 and 145 BPM
TempoInputs == {0, 160, 189, 190, 191, 219, 220, 221, 240, 250, 251, 260, 289, 290, 291, 300, 400}
\* energy in thousandths, around 0.07, 0.08, 0.10, 0.11, 0.12 and 0.13
EnergyInputs == {0, 50, 70, 75, 80, 90, 100, 105, 110, 115, 120, 125, 130, 135, 200}
\* brightness in Hz, around 0.3, 0.4, 0.5, 0.55 and 1.0 times 3500
BrightnessInputs == {0, 1000, 1050, 1200, 1400, 1500, 1750, 1800, 1925, 2000, 3500, 5000}
\* a major key, a minor key and the key of a track without chroma
KeyInputs == {CMajor, KeyLabel(9, Minor), Unknown}

InitMood ==
    /\ mood_in \in [tempo : TempoInputs, energy : EnergyInputs,
                    brightness : BrightnessInputs, key : KeyInputs]
    /\ mood = EmptyStr
    /\ IdleSong /\ IdleFolder /\ IdleCam /\ IdleRec /\ IdlePlayer

DetectMood ==
    /\ mood = EmptyStr
    /\ mood' = detect_mood(mood_in.energy, mood_in.brightness, mood_in.tempo, mood_in.key)
    /\ UNCHANGED <<mood_in, songVars, folderVars, camVars, recVars, playerVars>>

SpecMood == InitMood /\ [][DetectMood]_vars

\* C4: tempo-dominant rule. Every input with tempo > 145 BPM is labelled
\* "Energetic", whatever its energy, brightness and key.
C4_TempoDominant ==
    (mood # EmptyStr /\ mood_in.tempo > 2 * 145) => mood = Energetic

\* a fast track with high energy, a minor key and low brightness, which the
\* `tempo > 125` block would call Intense, has been labelled Energetic
C4_Witness ==
    /\ mood = Energetic
    /\ mood_in.tempo = 300
    /\ mood_in.energy = 200
    /\ mood_in.brightness = 1000
    /\ mood_in.key = KeyLabel(9, Minor)

\* C5: medium-high band. The rules of the band (Uplifting, Dark, Intense,
\* else Energetic) decide the mood iff 110 <= tempo <= 125; every track with
\* 125 < tempo <= 145 is labelled Energetic or Intense, never Uplifting or
\* Dark.
C5_MediumHighBand ==
    mood # EmptyStr =>
        /\ (2 * 110 <= mood_in.tempo /\ mood_in.tempo <= 2 * 125) =>
               mood = MediumHighBlock(mood_in.energy,
                                      brightness_normalized(mood_in.brightness),
                                      mood_in.key)
        /\ (2 * 125 < mood_in.tempo /\ mood_in.tempo <= 2 * 145) =>
               mood \in {Energetic, Intense}

-----------------------------------------------------------------------------
(* The player script of the page main.py serves.  The page has one play     *)
(* button per listed song; button b calls togglePlay(SongOf(b), b).         *)

Buttons == 1..NumButtons
PlayGlyph == "play"
PauseGlyph == "pause"

\* null for currentSong and for a src never set
Null == << >>

\* the {{ song }} the template binds to button b: file names of one folder
\* are distinct
SongOf(b) == <<"song", b>>

InitPlayer ==
    /\ currentButton = 0
    /\ currentSong = Null
    /\ paused = TRUE
    /\ audioSrc = Null
    /\ textContent = [b \in Buttons |-> PlayGlyph]
    /\ lastEvent = "load"
    /\ music_dir \in SUBSET {SongOf(b) : b \in Buttons}
    /\ response = 0
    /\ IdleSong /\ IdleFolder /\ IdleCam /\ IdleMood /\ IdleRec

\* '/play/' + encodeURIComponent(songName)
PlayUrl(songName) == <<"/play/">> \o songName

\* play_song(filename): the status of the response to GET url
play_song(url) ==
    LET filename == SubSeq(url, 2, Len(url))
    IN  IF filename \in music_dir THEN 200 ELSE 404

\* togglePlay without the reset of the previous button's glyph
togglePlayKeepGlyph(songName, button) ==
    /\ IF currentSong = songName /\ ~paused
       THEN /\ paused' = TRUE
            /\ textContent' = [textContent EXCEPT ![button] = PlayGlyph]
            /\ UNCHANGED <<currentButton, currentSong, audioSrc, response>>
       ELSE /\ textContent' = [textContent EXCEPT ![button] = PauseGlyph]
            /\ paused' = FALSE
            /\ audioSrc' = PlayUrl(songName)
            /\ response' = play_song(PlayUrl(songName))
            /\ currentButton' = button
            /\ currentSong' = songName
    /\ lastEvent' = "togglePlay"
    /\ UNCHANGED <<music_dir, songVars, folderVars, camVars, moodVars, recVars>>

togglePlay(songName, button) ==
    /\ IF currentSong = songName /\ ~paused
       THEN \* audioPlayer.pause(); button.textContent = play
            /\ paused' = TRUE
            /\ textContent' = [textContent EXCEPT ![button] = PlayGlyph]
            /\ UNCHANGED <<currentButton, currentSong, audioSrc, response>>
       ELSE \* reset the previous button, pause, set src, play(), show pause
            /\ textContent' =
                   [b \in Buttons |->
                       IF b = button THEN PauseGlyph
                       ELSE IF currentButton # 0 /\ currentButton # button
                               /\ b = currentButton
                            THEN PlayGlyph
                       ELSE textContent[b]]
            /\ paused' = FALSE
            /\ audioSrc' = PlayUrl(songName)
            /\ response' = play_song(PlayUrl(songName))
            /\ currentButton' = button
            /\ currentSong' = songName
    /\ lastEvent' = "togglePlay"
    /\ UNCHANGED <<music_dir, songVars, folderVars, camVars, moodVars, recVars>>

\* a click on some play button
Click == \E b \in Buttons : togglePlay(SongOf(b), b)

\* the 'ended' listener; the element fires 'ended' when playback reaches the
\* end of the media, and is paused from then on
Ended ==
    /\ audioSrc # Null
    /\ response = 200
    /\ ~paused
    /\ paused' = TRUE
    /\ IF currentButton # 0
       THEN /\ textContent' = [textContent EXCEPT ![currentButton] = PlayGlyph]
            /\ currentButton' = 0
            /\ currentSong' = Null
       ELSE UNCHANGED <<textContent, currentButton, currentSong>>
    /\ lastEvent' = "ended"
    /\ UNCHANGED <<audioSrc, music_dir, response>>
    /\ UNCHANGED <<songVars, folderVars, camVars, moodVars, recVars>>

\* the 'error' listener; the element fires 'error' when the src it was given
\* cannot be fetched (a 404) or decoded, and may or may not be paused afterwards
Error ==
    /\ audioSrc # Null
    /\ paused' \in {paused, TRUE}
    /\ IF currentButton # 0
       THEN textContent' = [textContent EXCEPT ![currentButton] = PlayGlyph]
       ELSE UNCHANGED textContent
    /\ lastEvent' = "error"
    /\ UNCHANGED <<currentButton, currentSong, audioSrc, music_dir, response>>
    /\ UNCHANGED <<songVars, folderVars, camVars, moodVars, recVars>>

NextPlayer == Click \/ Ended \/ Error

SpecPlayer == InitPlayer /\ [][NextPlayer]_vars

\* C10: single active button. At most one play button shows the pause
\* glyph; a button that shows it is the one in currentButton, and currentSong
\* is its song; after an 'ended' event no button shows it and currentButton
\* and currentSong are both null.
C10_SingleActiveButton ==
    /\ Cardinality({b \in Buttons : textContent[b] = PauseGlyph}) <= 1
    /\ \A b \in Buttons :
           textContent[b] = PauseGlyph =>
               currentButton = b /\ currentSong = SongOf(b)
    /\ lastEvent = "ended" =>
           /\ \A b \in Buttons : textContent[b] = PlayGlyph
           /\ currentButton = 0
           /\ currentSong = Null

\* the song of button 2 has been started by a click and is playing: its
\* button shows the pause glyph and button 1 does not
C10_Witness ==
    /\ lastEvent = "togglePlay"
    /\ currentButton = 2
    /\ ~paused
    /\ textContent[2] = PauseGlyph
    /\ textContent[1] = PlayGlyph

-----------------------------------------------------------------------------
(* The recommendation engine, as the design document states it (section    *)
(* 4.4).  A fingerprint is [filename, tempo, camelot, error]: tempo in BPM, *)
(* 0 when undetermined or empty; an entry with error set has the other     *)
(* fields empty.  Tempo distances are in half BPM, scores in tenths.       *)

Abs(x) == IF x < 0 THEN -x ELSE x

\* a usable tempo and camelotCode
Usable(fp) == ~fp.error /\ fp.tempo > 0 /\ fp.camelot # EmptyStr

\* twice min(|t - t2|, |t - 2 * t2|, |t - t2 / 2|)
tempoDistance(t, t2) ==
    Min(2 * Abs(t - t2), Min(2 * Abs(t - 2 * t2), Abs(2 * t - t2)))

IsDigit(c) == \E d \in 1..10 : Digits[d] = c
DigitValue(c) == (CHOOSE d \in 1..10 : Digits[d] = c) - 1

RECURSIVE StrToNat(_)
StrToNat(str) ==
    IF Len(str) = 0 THEN 0
    ELSE 10 * StrToNat(SubSeq(str, 1, Len(str) - 1)) + DigitValue(str[Len(str)])

\* a code is a wheel number 1..12 followed by the letter A or B
WellFormed(code) ==
    /\ Len(code) \in {2, 3}
    /\ code[Len(code)] \in {"A", "B"}
    /\ \A i \in 1..(Len(code) - 1) : IsDigit(code[i])
    /\ code[1] # "0"
    /\ StrToNat(SubSeq(code, 1, Len(code) - 1)) \in 1..12

WheelNumber(code) == StrToNat(SubSeq(code, 1, Len(code) - 1))
WheelLetter(code) == code[Len(code)]

\* the circular distance of two wheel numbers
CircularDistance(n1, n2) == Min(Abs(n1 - n2), 12 - Abs(n1 - n2))

\* camelotDistance without the wrap around the wheel
camelotDistanceLinear(a, b) ==
    IF a = b THEN 0
    ELSE IF ~WellFormed(a) \/ ~WellFormed(b) THEN 999
    ELSE IF WheelNumber(a) = WheelNumber(b) THEN 1
    ELSE IF WheelLetter(a) = WheelLetter(b)
         THEN LET c == Abs(WheelNumber(a) - WheelNumber(b))
              IN  IF c = 1 THEN 2 ELSE IF c = 2 THEN 4 ELSE 6 + c
    ELSE 8

\* the Camelot-wheel rule of step 2c
camelotDistance(a, b) ==
    IF a = b THEN 0
    ELSE IF ~WellFormed(a) \/ ~WellFormed(b) THEN 999
    ELSE IF WheelNumber(a) = WheelNumber(b) THEN 1
    ELSE IF WheelLetter(a) = WheelLetter(b)
         THEN LET c == CircularDistance(WheelNumber(a), WheelNumber(b))
              IN  IF c = 1 THEN 2 ELSE IF c = 2 THEN 4 ELSE 6 + c
    ELSE 8

\* the Recommendation for candidate fp of query fingerprint q
Recommendation(q, fp) ==
    [filename |-> fp.filename,
     tempo |-> fp.tempo,
     camelot |-> fp.camelot,
     tempoDistance |-> tempoDistance(q.tempo, fp.tempo),
     keyDistance |-> camelotDistance(q.camelot, fp.camelot),
     score |-> 30 * camelotDistance(q.camelot, fp.camelot)
               + tempoDistance(q.tempo, fp.tempo)]

\* step 2b with the window applied to the direct difference alone
InWindowDirect(q, fp) == 2 * Abs(q.tempo - fp.tempo) <= 2 * 12

\* step 2b: the candidate is kept unless tempoDistance > 12
InWindow(q, fp) == tempoDistance(q.tempo, fp.tempo) <= 2 * 12

RECURSIVE InsertByScore(_, _)
\* r put into the sorted list after every entry whose score is <= its own
InsertByScore(list, r) ==
    IF Len(list) = 0 THEN <<r>>
    ELSE IF list[Len(list)].score <= r.score THEN Append(list, r)
    ELSE Append(InsertByScore(SubSeq(list, 1, Len(list) - 1), r), list[Len(list)])

RECURSIVE SortByScore(_)
\* the stable ascending sort of step 3
SortByScore(list) ==
    IF Len(list) = 0 THEN << >>
    ELSE InsertByScore(SortByScore(SubSeq(list, 1, Len(list) - 1)), list[Len(list)])

Lookup(cat, filename) ==
    IF \E i \in 1..Len(cat) : cat[i].filename = filename
    THEN <<cat[CHOOSE i \in 1..Len(cat) : cat[i].filename = filename]>>
    ELSE << >>

\* the candidates that survive step 2, in catalog order
Scored(q, cat) ==
    LET keep(fp) == fp.filename # q.filename /\ Usable(fp) /\ InWindow(q, fp)
        kept == SelectSeq(cat, keep)
    IN  [i \in 1..Len(kept) |-> Recommendation(q, kept[i])]

recommend(queryFilename, cat) ==
    LET found == Lookup(cat, queryFilename)
    IN  IF found = << >> THEN << >>
        ELSE IF ~Usable(found[1]) THEN << >>
        ELSE LET sorted == SortByScore(Scored(found[1], cat))
             IN  SubSeq(sorted, 1, Min(10, Len(sorted)))

C8A == <<"8", "A">>

\* what a catalog entry can be
FingerprintInputs ==
    [tempo : {120, 128}, camelot : {C8A}, error : {FALSE}]
    \cup [tempo : {135, 64}, camelot : {<<"9", "A">>}, error : {FALSE}]
    \cup [tempo : {247}, camelot : {<<"3", "B">>}, error : {FALSE}]
    \cup [tempo : {0}, camelot : {C8A}, error : {FALSE}]
    \cup [tempo : {128}, camelot : {EmptyStr}, error : {FALSE}]
    \cup [tempo : {0}, camelot : {EmptyStr}, error : {TRUE}]

\* the catalogs: entry i has filename i
Catalogs ==
    UNION {{[i \in 1..n |-> [filename |-> i] @@ fs[i]] : fs \in [1..n -> FingerprintInputs]}
           : n \in 0..MaxCatalog}

InitRecommend ==
    /\ catalog \in Catalogs
    /\ query \in 1..(Len(catalog) + 1)
    /\ recs = [done |-> FALSE, list |-> << >>]
    /\ wheel_in = << >>
    /\ wheel_out = << >>
    /\ IdleSong /\ IdleFolder /\ IdleCam /\ IdleMood /\ IdlePlayer

Recommend ==
    /\ ~recs.done
    /\ recs' = [done |-> TRUE, list |-> recommend(query, catalog)]
    /\ UNCHANGED <<catalog, query, wheel_in, wheel_out>>
    /\ UNCHANGED <<songVars, folderVars, camVars, moodVars, playerVars>>

SpecRecommend == InitRecommend /\ [][Recommend]_vars

\* strings that are no Camelot code
MalformedCodes == {EmptyStr, <<"1", "3", "A">>, <<"0", "B">>, <<"8", "C">>, <<"A">>, <<"8">>}

InitWheel ==
    /\ wheel_in \in (CamelotCodes \cup MalformedCodes) \X (CamelotCodes \cup MalformedCodes)
    /\ wheel_out = << >>
    /\ catalog = << >>
    /\ query = 0
    /\ recs = [done |-> FALSE, list |-> << >>]
    /\ IdleSong /\ IdleFolder /\ IdleCam /\ IdleMood /\ IdlePlayer

CamelotDistance ==
    /\ wheel_out = << >>
    /\ wheel_out' = <<camelotDistance(wheel_in[1], wheel_in[2]),
                      camelotDistance(wheel_in[2], wheel_in[1])>>
    /\ UNCHANGED <<catalog, query, recs, wheel_in>>
    /\ UNCHANGED <<songVars, folderVars, camVars, moodVars, playerVars>>

SpecWheel == InitWheel /\ [][CamelotDistance]_vars

-----------------------------------------------------------------------------
(* Properties of recommend (SpecRecommend).                                *)

\* the least of three numbers
MinOfThree(a, b, c) == CHOOSE m \in {a, b, c} : \A x \in {a, b, c} : m <= x

\* twice the tempoDistance of the claim, from its three deltas
ClaimedTempoDistance(t, t2) ==
    MinOfThree(2 * Abs(t - t2), 2 * Abs(t - 2 * t2), Abs(2 * t - t2))

InResult(filename) == \E j \in 1..Len(recs.list) : recs.list[j].filename = filename

\* C8: tempo window. An entry is in the result only if it is another entry
\* than the query, it and the query have a usable tempo and camelotCode, and
\* tempoDistance = min(|t - t2|, |t - 2 t2|, |t - t2 / 2|) <= 12, the distance
\* its Recommendation carries; an entry with tempoDistance > 12 is never in
\* it (query 120 against 135); query 128 against 64 is in it with distance 0.
C8_TempoWindow ==
    recs.done =>
        LET found == Lookup(catalog, query)
        IN  /\ found = << >> => recs.list = << >>
            /\ \A j \in 1..Len(recs.list) :
                   /\ found # << >>
                   /\ Usable(found[1])
                   /\ recs.list[j].filename # query
                   /\ \E i \in 1..Len(catalog) :
                          /\ catalog[i].filename = recs.list[j].filename
                          /\ catalog[i].tempo > 0
                          /\ catalog[i].camelot # EmptyStr
                          /\ recs.list[j].tempoDistance =
                                 ClaimedTempoDistance(found[1].tempo, catalog[i].tempo)
                          /\ recs.list[j].tempoDistance <= 2 * 12
            /\ \A i \in 1..Len(catalog) :
                   (found # << >> /\ Usable(found[1]) /\ Usable(catalog[i])
                      /\ catalog[i].filename # query) =>
                       /\ ClaimedTempoDistance(found[1].tempo, catalog[i].tempo) > 2 * 12
                              => ~InResult(catalog[i].filename)
                       /\ (found[1].tempo = 120 /\ catalog[i].tempo = 135)
                              => ~InResult(catalog[i].filename)
                       /\ (found[1].tempo = 128 /\ catalog[i].tempo = 64) =>
                              \E j \in 1..Len(recs.list) :
                                  /\ recs.list[j].filename = catalog[i].filename
                                  /\ recs.list[j].tempoDistance = 0

\* a query at 120 BPM has a 64 BPM entry in its result, at the half-time
\* tempoDistance of 8 BPM, and a usable 135 BPM entry of the catalog is not
\* in it
C8_Witness ==
    /\ recs.done
    /\ Len(catalog) = 3
    /\ query = 1
    /\ catalog[1].tempo = 120 /\ Usable(catalog[1])
    /\ catalog[2].tempo = 64
    /\ catalog[3].tempo = 135 /\ Usable(catalog[3])
    /\ \E j \in 1..Len(recs.list) :
           recs.list[j].filename = 2 /\ recs.list[j].tempoDistance = 2 * 8
    /\ ~InResult(3)

-----------------------------------------------------------------------------
(* Properties of camelotDistance (SpecWheel).                              *)

CodeOf(n, letter) == NatToStr(n) \o <<letter>>

\* the wheel rule of the claim for the codes (n1, l1) and (n2, l2)
WheelRule(n1, l1, n2, l2) ==
    LET c == IF Abs(n1 - n2) < 12 - Abs(n1 - n2) THEN Abs(n1 - n2) ELSE 12 - Abs(n1 - n2)
    IN  IF n1 = n2 /\ l1 = l2 THEN 0
        ELSE IF n1 = n2 THEN 1
        ELSE IF l1 # l2 THEN 8
        ELSE IF c = 1 THEN 2
        ELSE IF c = 2 THEN 4
        ELSE 6 + c

\* C9: over the ordered pairs of valid codes camelotDistance is symmetric,
\* is 0 on equal codes, follows the wheel rule on the circular distance
\* (d(8A, 1A) = 11, and 12 across the wheel), takes its values in
\* {0, 1, 2, 4, 8, 9, 10, 11, 12}; 999 is returned only for a malformed code.
C9_WheelDistance ==
    wheel_out # << >> =>
        /\ \A n1 \in 1..12, n2 \in 1..12 : \A l1 \in {"A", "B"}, l2 \in {"A", "B"} :
               (wheel_in = <<CodeOf(n1, l1), CodeOf(n2, l2)>>) =>
                   /\ wheel_out[1] = wheel_out[2]
                   /\ wheel_out[1] = WheelRule(n1, l1, n2, l2)
                   /\ wheel_out[1] \in {0, 1, 2, 4, 8, 9, 10, 11, 12}
                   /\ (n1 = n2 /\ l1 = l2) => wheel_out[1] = 0
                   /\ (l1 = l2 /\ Abs(n1 - n2) = 6) => wheel_out[1] = 12
        /\ wheel_in = <<C8A, <<"1", "A">> >> => wheel_out[1] = 11
        /\ wheel_out[1] = 999 =>
               wheel_in[1] \notin CamelotCodes \/ wheel_in[2] \notin CamelotCodes

\* d(8A, 1A) has been computed, the wrap around the wheel taken
C9_Witness ==
    /\ wheel_in = <<C8A, <<"1", "A">> >>
    /\ wheel_out = <<11, 11>>

====
